---- MODULE Spec2Model ----
(***************************************************************************)
(* State-machine model of the usb_rt character driver (src/usb-rt.c): one   *)
(* session (struct usb_rt) used by two caller threads, the URB completion  *)
(* handlers and the USB core's lifecycle thread (disconnect,               *)
(* suspend/resume, pre/post reset).  The file holds two drivers: the       *)
(* WRITES_IN_FLIGHT = 8 driver (lines 1-701) and the WRITES_IN_FLIGHT = 1  *)
(* driver (lines 703-1495); definitions of the latter end in _v2 and the   *)
(* steps that read the same in both are shared.                            *)
(* The USB core is the environment: it accepts or refuses a submission,    *)
(* completes an URB with a status and a length, and usb_kill_urb unlinks   *)
(* an URB and waits for its completion handler.                            *)
(***************************************************************************)
EXTENDS Integers, FiniteSets, Sequences, TLC

\* ---- bounds of the model -------------------------------------------------
MaxPacket == 2      \* usb_endpoint_maxp(bulk_in): size of the receive buffer
MaxCount  == 2      \* largest count a caller passes to read()
MaxSends  == 2      \* send URBs allocated in one run
MaxWrite  == 1      \* largest count a caller passes to write()
MaxCopied == 2      \* cap of bulk_in_copied (it only grows past filled after a race)
SizeBits  == 8      \* width of size_t in the model (unsigned wrap-around)

\* ---- program constants ---------------------------------------------------
WRITES_IN_FLIGHT == 8
PAGE_SIZE        == 4096
MAX_TRANSFER     == PAGE_SIZE - 512

Callers == {"c1", "c2"}
Life    == "life"
Procs   == Callers \cup {Life}
NoOwner == "free"

Urbs == 1..MaxSends

\* urb->status values the completion handlers distinguish; 0 is "OK"
OK      == "OK"
EPIPE   == "EPIPE"
EPROTO  == "EPROTO"
ENOENT  == "ENOENT"
Benign  == {ENOENT, "ECONNRESET", "ESHUTDOWN"}

VARIABLES
  intfdata,      \* usb_get_intfdata(interface) != NULL
  registered,    \* the minor is registered (usb_register_dev .. usb_deregister_dev)
  interface,     \* dev->interface != NULL
  disconnected,  \* dev->disconnected (lines 703-1495 only)
  kref,          \* dev->kref
  deleted,       \* number of times usb_rt_delete ran
  limit_sem,     \* dev->limit_sem count
  io_mutex,      \* owner of dev->io_mutex
  errors,        \* dev->errors
  ongoing_read,  \* dev->ongoing_read
  bulk_in_filled,
  bulk_in_copied,
  rx_urb,        \* dev->bulk_in_urb: "idle", "inflight", "unlinked"
  rx_len,        \* its transfer_buffer_length
  tx,            \* send URBs: [st, kills, rel, len]
  handle,        \* file->private_data of each caller's open file
  pc, op, cnt, nb, lrv, chunk,
  ret,           \* the call that returned last: [who, op, err, n]
  err_seen,      \* history: calls that fetched the failure now recorded in dev->errors
  across         \* history: the call was waiting for io_mutex when post_reset released it

vars == << intfdata, registered, interface, disconnected, kref, deleted, limit_sem, io_mutex,
           errors, ongoing_read, bulk_in_filled, bulk_in_copied, rx_urb, rx_len,
           tx, handle, pc, op, cnt, nb, lrv, chunk, ret,
           err_seen, across >>

devvars  == << intfdata, registered, interface, disconnected >>
refvars  == << kref, deleted >>
rxvars   == << ongoing_read, bulk_in_filled, bulk_in_copied, rx_urb, rx_len >>
locvars  == << cnt, nb, lrv, chunk, across >>

\* ---- helpers -------------------------------------------------------------
Min(a, b) == IF a < b THEN a ELSE b

SizeMod == 2 ^ SizeBits

\* size_t subtraction
SizeSub(a, b) == (a - b + SizeMod) % SizeMod

\* event bits of <uapi/asm-generic/poll.h>
POLLIN     == 1
POLLPRI    == 2
POLLOUT    == 4
POLLERR    == 8
POLLRDNORM == 64
POLLWRNORM == 256

\* unsigned int retval = POLLWRNORM | POLLPRI | POLLOUT ("can always write")
PollDefault == POLLWRNORM + POLLPRI + POLLOUT

\* retval |= POLLRDNORM | POLLIN
PollReadable == PollDefault + POLLRDNORM + POLLIN

\* what a call returned: an error code, or OK and a byte count / event mask
Result(o, e, n) == [op |-> o, err |-> e, n |-> n]

\* rv = (rv == -EPIPE) ? rv : -EIO
ErrXlate(e) == IF e = EPIPE THEN EPIPE ELSE "EIO"

\* URBs the USB core holds; an URB is on dev->submitted from usb_anchor_urb
\* until its completion handler has run or usb_unanchor_urb took it off
InFlight == {i \in Urbs : tx[i].st \in {"inflight", "unlinked"}}
Anchored == {i \in Urbs : tx[i].st \in {"inflight", "unlinked", "stale"}}
UsedUrbs == {i \in Urbs : tx[i].st # "unused"}
RxBusy   == rx_urb \in {"inflight", "unlinked"}

\* usb_kill_urb(bulk_in_urb) in progress: urb->reject is raised
RxReject == \E q \in Procs : pc[q] = "dd_killrx_wait"

\* kref_put(&dev->kref, usb_rt_delete)
kref_put ==
  /\ kref' = kref - 1
  /\ deleted' = IF kref = 1 THEN deleted + 1 ELSE deleted

\* return from a file operation
Return(p, r) ==
  /\ pc' = [pc EXCEPT ![p] = "idle"]
  /\ op' = [op EXCEPT ![p] = "none"]
  /\ ret' = [who |-> p, op |-> r.op, err |-> r.err, n |-> r.n]
  /\ cnt' = [cnt EXCEPT ![p] = 0]
  /\ nb' = [nb EXCEPT ![p] = FALSE]
  /\ lrv' = [lrv EXCEPT ![p] = OK]
  /\ chunk' = [chunk EXCEPT ![p] = 0]
  /\ across' = [across EXCEPT ![p] = FALSE]

Goto(p, l) == pc' = [pc EXCEPT ![p] = l]

NoResult == [who |-> "none", op |-> "none", err |-> "OK", n |-> 0]

\* entry of a file operation: the previous call's result is gone
Call(p, o, l) ==
  /\ pc' = [pc EXCEPT ![p] = l]
  /\ op' = [op EXCEPT ![p] = o]
  /\ ret' = IF ret.who = p THEN NoResult ELSE ret

Idle(p) == pc[p] = "idle"

\* ---- initial state: usb_rt_probe has returned ----------------------------
\* kref_init, sema_init, mutex_init, ...; on success the minor is registered,
\* on failure (label error) kref_put frees the session and nothing is bound
usb_rt_probe(ok) ==
  /\ intfdata = ok /\ registered = ok /\ interface = TRUE
  /\ disconnected = FALSE
  /\ kref = (IF ok THEN 1 ELSE 0)
  /\ deleted = (IF ok THEN 0 ELSE 1)
  /\ pc = [p \in Procs |-> IF p = Life /\ ~ok THEN "gone" ELSE "idle"]

Init ==
  /\ \E ok \in BOOLEAN : usb_rt_probe(ok)
  /\ limit_sem = WRITES_IN_FLIGHT
  /\ io_mutex = NoOwner
  /\ errors = OK
  /\ ongoing_read = FALSE
  /\ bulk_in_filled = 0 /\ bulk_in_copied = 0
  /\ rx_urb = "idle" /\ rx_len = 0
  /\ tx = [i \in Urbs |-> [st |-> "unused", kills |-> 0, rel |-> 0, len |-> 0]]
  /\ handle = [p \in Callers |-> FALSE]
  /\ op = [p \in Procs |-> "none"]
  /\ cnt = [p \in Callers |-> 0]
  /\ nb = [p \in Callers |-> FALSE]
  /\ lrv = [p \in Callers |-> OK]
  /\ chunk = [p \in Callers |-> 0]
  /\ ret = NoResult
  /\ err_seen = 0
  /\ across = [p \in Callers |-> FALSE]

\* usb_rt_open without the usb_find_interface / usb_get_intfdata checks
usb_rt_open_nocheck(p) ==
  /\ Idle(p) /\ ~handle[p]
  /\ Call(p, "open", "o_get")
  /\ UNCHANGED locvars
  /\ UNCHANGED << devvars, refvars, limit_sem, io_mutex, errors, rxvars, tx,
                  handle, err_seen >>

\* ---- open / release ------------------------------------------------------
\* usb_find_interface and usb_get_intfdata; the USB core holds minor_rwsem
\* over the driver's open, so usb_deregister_dev waits for it
usb_rt_open(p) ==
  /\ Idle(p) /\ ~handle[p]
  /\ IF registered /\ intfdata
       THEN /\ Call(p, "open", "o_get")
            /\ UNCHANGED locvars
       ELSE Return(p, Result("open", "ENODEV", 0))
  /\ UNCHANGED << devvars, refvars, limit_sem, io_mutex, errors, rxvars, tx,
                  handle, err_seen >>

\* usb_rt_open that forgets kref_get
usb_rt_open_get_noref(p) ==
  /\ pc[p] = "o_get"
  /\ \/ /\ Return(p, Result("open", "EIO", 0))
        /\ UNCHANGED << kref, handle >>
     \/ /\ handle' = [handle EXCEPT ![p] = TRUE]
        /\ Return(p, Result("open", OK, 0))
        /\ UNCHANGED kref
  /\ UNCHANGED << devvars, deleted, limit_sem, io_mutex, errors, rxvars, tx,
                  err_seen >>

\* usb_autopm_get_interface, then kref_get
usb_rt_open_get(p) ==
  /\ pc[p] = "o_get"
  /\ \/ /\ Return(p, Result("open", "EIO", 0))
        /\ UNCHANGED << kref, handle >>
     \/ /\ kref' = kref + 1
        /\ handle' = [handle EXCEPT ![p] = TRUE]
        /\ Return(p, Result("open", OK, 0))
  /\ UNCHANGED << devvars, deleted, limit_sem, io_mutex, errors, rxvars, tx,
                  err_seen >>

\* mutex_lock; usb_autopm_put_interface; mutex_unlock
usb_rt_release(p) ==
  /\ Idle(p) /\ handle[p]
  /\ io_mutex = NoOwner
  /\ Call(p, "release", "rel_put")
  /\ UNCHANGED << devvars, refvars, limit_sem, io_mutex, errors, rxvars, tx,
                  handle, locvars, err_seen >>

usb_rt_release_put(p) ==
  /\ pc[p] = "rel_put"
  /\ kref_put
  /\ handle' = [handle EXCEPT ![p] = FALSE]
  /\ Return(p, Result("release", OK, 0))
  /\ UNCHANGED << devvars, limit_sem, io_mutex, errors, rxvars, tx,
                  err_seen >>

\* ---- receive path --------------------------------------------------------
\* a return from usb_rt_read that skips mutex_unlock
ReadExit_locked(p, r) ==
  /\ UNCHANGED io_mutex
  /\ Return(p, r)

\* unlock io_mutex and return (label exit of usb_rt_read)
ReadExit(p, r) ==
  /\ io_mutex' = NoOwner
  /\ Return(p, r)

\* usb_rt_read: EOF test, then the call waits for io_mutex
usb_rt_read(p, c, n) ==
  /\ Idle(p) /\ handle[p]
  /\ IF c = 0
       THEN Return(p, Result("read", OK, 0))
       ELSE /\ Call(p, "read", "r_lock")
            /\ cnt' = [cnt EXCEPT ![p] = c]
            /\ nb' = [nb EXCEPT ![p] = n]
            /\ UNCHANGED << lrv, chunk, across >>
  /\ UNCHANGED << devvars, refvars, limit_sem, io_mutex, errors, rxvars, tx,
                  handle, err_seen >>

\* mutex_lock_interruptible, then the test of dev->interface
usb_rt_read_lock(p) ==
  /\ pc[p] = "r_lock"
  /\ \/ /\ io_mutex = NoOwner
        /\ IF interface
             THEN /\ io_mutex' = p
                  /\ Goto(p, "r_retry")
                  /\ UNCHANGED << op, ret, locvars >>
             ELSE /\ Return(p, Result("read", "ENODEV", 0))
                  /\ UNCHANGED io_mutex
     \/ /\ io_mutex # NoOwner
        /\ Return(p, Result("read", "EINTR", 0))
        /\ UNCHANGED io_mutex
  /\ UNCHANGED << devvars, refvars, limit_sem, errors, rxvars, tx,
                  handle, err_seen >>

\* label retry: ongoing_io = dev->ongoing_read under err_lock
usb_rt_read_retry(p) ==
  /\ pc[p] = "r_retry"
  /\ IF ongoing_read
       THEN IF nb[p]
              THEN ReadExit(p, Result("read", "EAGAIN", 0))
              ELSE /\ Goto(p, "r_wait")
                   /\ UNCHANGED << io_mutex, op, ret, locvars >>
       ELSE /\ Goto(p, "r_err")
            /\ UNCHANGED << io_mutex, op, ret, locvars >>
  /\ UNCHANGED << devvars, refvars, limit_sem, errors, rxvars, tx,
                  handle, err_seen >>

\* wait_event_interruptible(dev->bulk_in_wait, !dev->ongoing_read)
usb_rt_read_wait(p) ==
  /\ pc[p] = "r_wait"
  /\ IF ~ongoing_read
       THEN /\ Goto(p, "r_err")
            /\ UNCHANGED << io_mutex, op, ret, locvars >>
       ELSE ReadExit(p, Result("read", "ERESTARTSYS", 0))
  /\ UNCHANGED << devvars, refvars, limit_sem, errors, rxvars, tx,
                  handle, err_seen >>

\* usb_rt_read that drops the buffered bytes when it finds dev->errors set
usb_rt_read_errors_drop(p) ==
  /\ pc[p] = "r_err"
  /\ lrv' = [lrv EXCEPT ![p] = errors]
  /\ err_seen' = IF errors # OK THEN Min(err_seen + 1, 2) ELSE err_seen
  /\ Goto(p, IF errors # OK THEN "r_clear" ELSE "r_data")
  /\ bulk_in_filled' = IF errors # OK THEN 0 ELSE bulk_in_filled
  /\ bulk_in_copied' = IF errors # OK THEN 0 ELSE bulk_in_copied
  /\ UNCHANGED << devvars, refvars, limit_sem, io_mutex, errors, ongoing_read,
                  rx_urb, rx_len, tx,
                  handle, op, cnt, nb, chunk, ret, across >>

\* rv = dev->errors (read without err_lock)
usb_rt_read_errors(p) ==
  /\ pc[p] = "r_err"
  /\ lrv' = [lrv EXCEPT ![p] = errors]
  /\ err_seen' = IF errors # OK THEN Min(err_seen + 1, 2) ELSE err_seen
  /\ Goto(p, IF errors # OK THEN "r_clear" ELSE "r_data")
  /\ UNCHANGED << devvars, refvars, limit_sem, io_mutex, errors, rxvars, tx,
                  handle, op, cnt, nb, chunk, ret, across >>

\* usb_rt_read that reports the error but leaves it in dev->errors
usb_rt_read_report_keep(p) ==
  /\ pc[p] = "r_clear"
  /\ ReadExit(p, Result("read", ErrXlate(lrv[p]), 0))
  /\ UNCHANGED << devvars, refvars, limit_sem, errors, rxvars, tx,
                  handle, err_seen >>

\* dev->errors = 0; rv = (rv == -EPIPE) ? rv : -EIO; goto exit
usb_rt_read_report(p) ==
  /\ pc[p] = "r_clear"
  /\ errors' = OK
  /\ ReadExit(p, Result("read", ErrXlate(lrv[p]), 0))
  /\ UNCHANGED << devvars, refvars, limit_sem, rxvars, tx,
                  handle, err_seen >>

\* if (dev->bulk_in_filled) { available = filled - copied; chunk = min(...) }
usb_rt_read_data(p) ==
  /\ pc[p] = "r_data"
  /\ LET available == SizeSub(bulk_in_filled, bulk_in_copied) IN
       IF bulk_in_filled # 0 /\ available # 0
         THEN /\ chunk' = [chunk EXCEPT ![p] = Min(available, cnt[p])]
              /\ Goto(p, "r_copy")
         ELSE /\ Goto(p, "io_flag")
              /\ UNCHANGED chunk
  /\ UNCHANGED << devvars, refvars, limit_sem, io_mutex, errors, rxvars, tx,
                  handle, op, cnt, nb, lrv, ret, err_seen, across >>

\* copy_to_user; dev->bulk_in_copied += chunk; exit
usb_rt_read_copy(p) ==
  /\ pc[p] = "r_copy"
  /\ bulk_in_copied + chunk[p] <= MaxCopied
  /\ bulk_in_copied' = bulk_in_copied + chunk[p]
  /\ \/ ReadExit(p, Result("read", OK, chunk[p]))
     \/ ReadExit(p, Result("read", "EFAULT", 0))
  /\ UNCHANGED << devvars, refvars, limit_sem, errors, ongoing_read,
                  bulk_in_filled, rx_urb, rx_len, tx, handle,
                  err_seen >>

\* ---- usb_rt_do_read_io, called by read (count) and poll (bulk_in_size) ----
\* usb_fill_bulk_urb(.., min(dev->bulk_in_size, count), ..); ongoing_read = 1
usb_rt_do_read_io(p) ==
  /\ pc[p] = "io_flag"
  /\ rx_len' = Min(MaxPacket, IF op[p] = "read" THEN cnt[p] ELSE MaxPacket)
  /\ ongoing_read' = TRUE
  /\ Goto(p, "io_reset")
  /\ UNCHANGED << devvars, refvars, limit_sem, io_mutex, errors,
                  bulk_in_filled, bulk_in_copied, rx_urb, tx, handle,
                  op, ret, locvars, err_seen >>

\* dev->bulk_in_filled = 0; dev->bulk_in_copied = 0
usb_rt_do_read_io_reset(p) ==
  /\ pc[p] = "io_reset"
  /\ bulk_in_filled' = 0
  /\ bulk_in_copied' = 0
  /\ Goto(p, "io_submit")
  /\ UNCHANGED << devvars, refvars, limit_sem, io_mutex, errors,
                  ongoing_read, rx_urb, rx_len, tx, handle,
                  op, ret, locvars, err_seen >>

\* the caller's continuation after usb_rt_do_read_io returned rv
IoDone(p, e) ==
  CASE op[p] = "read" ->
         IF e = OK
           THEN /\ Goto(p, "r_retry")
                /\ UNCHANGED << io_mutex, op, ret, locvars >>
           ELSE ReadExit(p, Result("read", e, 0))
    [] op[p] = "poll_v2" ->
         /\ io_mutex' = NoOwner
         /\ Return(p, Result("poll", OK, IF e = OK THEN PollDefault ELSE POLLERR))
    [] OTHER ->
         /\ Return(p, Result("poll", OK, PollDefault))
         /\ UNCHANGED io_mutex

\* rv = usb_submit_urb(dev->bulk_in_urb); on failure ongoing_read = 0
usb_rt_do_read_io_submit(p) ==
  /\ pc[p] = "io_submit"
  /\ \/ /\ ~RxBusy /\ ~RxReject
        /\ rx_urb' = "inflight"
        /\ IoDone(p, OK)
        /\ UNCHANGED ongoing_read
     \/ /\ \E e \in {"ENOMEM", "EIO"} : IoDone(p, e)
        /\ ongoing_read' = FALSE
        /\ UNCHANGED rx_urb
  /\ UNCHANGED << devvars, refvars, limit_sem, errors, bulk_in_filled,
                  bulk_in_copied, rx_len, tx, handle, err_seen >>

\* usb_rt_read_bulk_callback
usb_rt_read_bulk_callback(status, len) ==
  /\ RxBusy
  /\ IF rx_urb = "unlinked" THEN status = ENOENT
     ELSE status \in {OK, EPIPE, EPROTO}
  /\ len \in 0..rx_len
  /\ status # OK => len = 0
  /\ IF status # OK
       THEN /\ errors' = status
            /\ err_seen' = 0
            /\ UNCHANGED bulk_in_filled
       ELSE /\ bulk_in_filled' = len
            /\ UNCHANGED << errors, err_seen >>
  /\ ongoing_read' = FALSE
  /\ rx_urb' = "idle"
  /\ UNCHANGED << devvars, refvars, limit_sem, io_mutex, bulk_in_copied,
                  rx_len, tx, handle, pc, op, ret, locvars >>

\* ---- poll ----------------------------------------------------------------
\* ongoing_io = dev->ongoing_read under err_lock
usb_rt_poll(p) ==
  /\ Idle(p) /\ handle[p]
  /\ IF ongoing_read
       THEN Return(p, Result("poll", OK, PollDefault))
       ELSE /\ Call(p, "poll", "p_avail")
            /\ UNCHANGED locvars
  /\ UNCHANGED << devvars, refvars, limit_sem, io_mutex, errors, rxvars, tx,
                  handle, err_seen >>

\* if (dev->bulk_in_filled - dev->bulk_in_copied) POLLIN else usb_rt_do_read_io
usb_rt_poll_avail(p) ==
  /\ pc[p] = "p_avail"
  /\ IF SizeSub(bulk_in_filled, bulk_in_copied) # 0
       THEN Return(p, Result("poll", OK, PollReadable))
       ELSE /\ Goto(p, "io_flag")
            /\ UNCHANGED << op, ret, locvars >>
  /\ UNCHANGED << devvars, refvars, limit_sem, io_mutex, errors, rxvars, tx,
                  handle, err_seen >>

\* ---- send path -----------------------------------------------------------
SlotHolders == {q \in Callers : pc[q] \in {"w_err", "w_lock"}}
InWrite     == {q \in Callers : pc[q] \in {"w_sem", "w_err", "w_lock"}}

NextUrb == CHOOSE i \in Urbs :
             tx[i].st = "unused" /\ \A j \in Urbs : j < i => tx[j].st # "unused"

\* error: up(&dev->limit_sem); return retval
WriteError(p, e) ==
  /\ limit_sem' = limit_sem + 1
  /\ Return(p, Result("write", e, 0))

\* size_t writesize = min(count, (size_t)MAX_TRANSFER)
writesize(c) == Min(c, MAX_TRANSFER)

\* usb_rt_write: if (count == 0) goto exit
usb_rt_write(p, c, n) ==
  /\ Idle(p) /\ handle[p]
  /\ Cardinality(UsedUrbs) + Cardinality(InWrite) < MaxSends
  /\ IF c = 0
       THEN Return(p, Result("write", OK, 0))
       ELSE /\ Call(p, "write", "w_sem")
            /\ cnt' = [cnt EXCEPT ![p] = c]
            /\ nb' = [nb EXCEPT ![p] = n]
            /\ UNCHANGED << lrv, chunk, across >>
  /\ UNCHANGED << devvars, refvars, limit_sem, io_mutex, errors, rxvars, tx,
                  handle, err_seen >>

\* usb_rt_write that goes on although limit_sem has no slot left
usb_rt_write_down_nolimit(p) ==
  /\ pc[p] = "w_sem"
  /\ limit_sem' = IF limit_sem > 0 THEN limit_sem - 1 ELSE limit_sem
  /\ Goto(p, "w_err")
  /\ UNCHANGED << op, ret, locvars >>
  /\ UNCHANGED << devvars, refvars, io_mutex, errors, rxvars, tx,
                  handle, err_seen >>

\* down_interruptible / down_trylock on dev->limit_sem
usb_rt_write_down(p) ==
  /\ pc[p] = "w_sem"
  /\ IF limit_sem > 0
       THEN /\ limit_sem' = limit_sem - 1
            /\ Goto(p, "w_err")
            /\ UNCHANGED << op, ret, locvars >>
       ELSE /\ Return(p, Result("write", IF nb[p] THEN "EAGAIN" ELSE "ERESTARTSYS", 0))
            /\ UNCHANGED limit_sem
  /\ UNCHANGED << devvars, refvars, io_mutex, errors, rxvars, tx,
                  handle, err_seen >>

\* retval = dev->errors; if (retval < 0) dev->errors = 0, under err_lock;
\* then usb_alloc_urb, usb_alloc_coherent, copy_from_user
usb_rt_write_errors(p) ==
  /\ pc[p] = "w_err"
  /\ IF errors # OK
       THEN /\ errors' = OK
            /\ err_seen' = Min(err_seen + 1, 2)
            /\ WriteError(p, ErrXlate(errors))
       ELSE /\ UNCHANGED << errors, err_seen >>
            /\ \/ /\ \E e \in {"ENOMEM", "EFAULT"} : WriteError(p, e)
               \/ /\ Goto(p, "w_lock")
                  /\ UNCHANGED << limit_sem, op, ret, locvars >>
  /\ UNCHANGED << devvars, refvars, io_mutex, rxvars, tx, handle >>

\* usb_rt_write whose -ENODEV path leaves through exit instead of error
usb_rt_write_submit_noup(p) ==
  /\ pc[p] = "w_lock"
  /\ io_mutex = NoOwner
  /\ IF ~interface
       THEN /\ Return(p, Result("write", "ENODEV", 0))
            /\ UNCHANGED << tx, limit_sem >>
       ELSE \/ /\ tx' = [tx EXCEPT ![NextUrb].st = "inflight",
                                     ![NextUrb].len = writesize(cnt[p])]
               /\ Return(p, Result("write", OK, writesize(cnt[p])))
               /\ UNCHANGED limit_sem
            \/ /\ \E e \in {"ENOMEM", "ESHUTDOWN"} : WriteError(p, e)
               /\ UNCHANGED tx
  /\ UNCHANGED << devvars, refvars, io_mutex, errors, rxvars, handle, err_seen >>

\* mutex_lock; if (!dev->interface) -ENODEV; usb_anchor_urb; usb_submit_urb;
\* mutex_unlock; on failure error_unanchor
usb_rt_write_submit(p) ==
  /\ pc[p] = "w_lock"
  /\ io_mutex = NoOwner
  /\ IF ~interface
       THEN /\ WriteError(p, "ENODEV")
            /\ UNCHANGED tx
       ELSE \/ /\ tx' = [tx EXCEPT ![NextUrb].st = "inflight",
                                     ![NextUrb].len = writesize(cnt[p])]
               /\ Return(p, Result("write", OK, writesize(cnt[p])))
               /\ UNCHANGED limit_sem
            \/ /\ \E e \in {"ENOMEM", "ESHUTDOWN"} : WriteError(p, e)
               /\ UNCHANGED tx
  /\ UNCHANGED << devvars, refvars, io_mutex, errors, rxvars, handle, err_seen >>

\* a completion handler that returns early, without up(), for an unlinked URB
usb_rt_write_bulk_callback_noup(i, status) ==
  /\ i \in InFlight
  /\ IF tx[i].st = "unlinked" THEN status = ENOENT
     ELSE status \in {OK, EPIPE, EPROTO}
  /\ IF status # OK /\ status \notin Benign
       THEN /\ errors' = status
            /\ err_seen' = 0
       ELSE UNCHANGED << errors, err_seen >>
  /\ IF status \in Benign
       THEN /\ tx' = [tx EXCEPT ![i].st = "done", ![i].len = 0]
            /\ UNCHANGED limit_sem
       ELSE /\ tx' = [tx EXCEPT ![i].st = "done", ![i].len = 0,
                                     ![i].rel = tx[i].rel + 1]
            /\ limit_sem' = limit_sem + 1
  /\ UNCHANGED << devvars, refvars, io_mutex, rxvars, handle,
                  pc, op, ret, locvars >>

\* usb_rt_write_bulk_callback: record the status, free the buffer, up()
usb_rt_write_bulk_callback(i, status) ==
  /\ i \in InFlight
  /\ IF tx[i].st = "unlinked" THEN status = ENOENT
     ELSE status \in {OK, EPIPE, EPROTO}
  /\ IF status # OK
       THEN /\ errors' = status
            /\ err_seen' = 0
       ELSE UNCHANGED << errors, err_seen >>
  /\ tx' = [tx EXCEPT ![i].st = "done", ![i].len = 0,
                       ![i].rel = tx[i].rel + 1]
  /\ limit_sem' = limit_sem + 1
  /\ UNCHANGED << devvars, refvars, io_mutex, rxvars, handle,
                  pc, op, ret, locvars >>

\* ---- draw-down, shared by flush, suspend and pre_reset -------------------
\* usb_kill_anchored_urbs: usb_kill_urb on every anchored URB, which unlinks
\* it if the USB core holds it
KillAnchored ==
  [i \in Urbs |->
     IF i \in InFlight
       THEN [tx[i] EXCEPT !.st = "unlinked", !.kills = Min(tx[i].kills + 1, 2)]
       ELSE tx[i]]

\* time = usb_wait_anchor_empty_timeout(&dev->submitted, 1000);
\* if (!time) usb_kill_anchored_urbs(&dev->submitted)
usb_rt_draw_down(p) ==
  /\ pc[p] = "dd_wait"
  /\ IF Anchored = {}
       THEN /\ Goto(p, "dd_killrx")
            /\ UNCHANGED tx
       ELSE /\ tx' = KillAnchored
            /\ Goto(p, "ka_wait")
  /\ UNCHANGED << devvars, refvars, limit_sem, io_mutex, errors, rxvars,
                  handle, op, ret, locvars, err_seen >>

\* usb_kill_anchored_urbs loops until the anchor is empty: every URB it
\* unlinked has had its completion handler run
usb_kill_anchored_urbs(p) ==
  /\ pc[p] = "ka_wait"
  /\ IF Anchored = {}
       THEN /\ Goto(p, IF op[p] = "disconnect" THEN "dc_put" ELSE "dd_killrx")
            /\ UNCHANGED tx
       ELSE /\ \E i \in Anchored : tx[i].st = "inflight"
            /\ tx' = KillAnchored
            /\ UNCHANGED pc
  /\ UNCHANGED << devvars, refvars, limit_sem, io_mutex, errors, rxvars,
                  handle, op, ret, locvars, err_seen >>

\* usb_kill_urb(dev->bulk_in_urb): unlink it if it is in flight
usb_rt_draw_down_kill(p) ==
  /\ pc[p] = "dd_killrx"
  /\ rx_urb' = IF RxBusy THEN "unlinked" ELSE rx_urb
  /\ Goto(p, "dd_killrx_wait")
  /\ UNCHANGED << devvars, refvars, limit_sem, io_mutex, errors, ongoing_read,
                  bulk_in_filled, bulk_in_copied, rx_len, tx,
                  handle, op, ret, locvars, err_seen >>

\* usb_kill_urb returns when the completion handler has run; draw-down returns
usb_rt_draw_down_done(p) ==
  /\ pc[p] = "dd_killrx_wait"
  /\ ~RxBusy
  /\ Goto(p, CASE op[p] = "flush" -> "f_err"
               [] op[p] = "suspend" -> "suspended"
               [] op[p] = "disconnect" -> "dc_kill"
               [] OTHER -> "reset_held")
  /\ UNCHANGED << devvars, refvars, limit_sem, io_mutex, errors, rxvars, tx,
                  handle, op, ret, locvars, err_seen >>

\* ---- flush ---------------------------------------------------------------
\* mutex_lock(&dev->io_mutex); usb_rt_draw_down(dev)
usb_rt_flush(p) ==
  /\ Idle(p) /\ handle[p]
  /\ io_mutex = NoOwner
  /\ io_mutex' = p
  /\ Call(p, "flush", "dd_wait")
  /\ UNCHANGED << devvars, refvars, limit_sem, errors, rxvars, tx,
                  handle, locvars, err_seen >>

\* res = dev->errors ? (dev->errors == -EPIPE ? -EPIPE : -EIO) : 0;
\* dev->errors = 0, under err_lock; mutex_unlock
usb_rt_flush_errors(p) ==
  /\ pc[p] = "f_err"
  /\ errors' = OK
  /\ err_seen' = IF errors # OK THEN Min(err_seen + 1, 2) ELSE err_seen
  /\ io_mutex' = NoOwner
  /\ Return(p, Result("flush", IF errors # OK THEN ErrXlate(errors) ELSE OK, 0))
  /\ UNCHANGED << devvars, refvars, limit_sem, rxvars, tx, handle >>

\* ---- lifecycle events, delivered by the USB core --------------------------
\* usb_set_intfdata(interface, NULL); usb_deregister_dev (waits for opens)
usb_rt_disconnect ==
  /\ pc[Life] = "idle"
  /\ \A q \in Callers : pc[q] # "o_get"
  /\ intfdata' = FALSE
  /\ registered' = FALSE
  /\ pc' = [pc EXCEPT ![Life] = "dc_lock"]
  /\ op' = [op EXCEPT ![Life] = "disconnect"]
  /\ UNCHANGED << interface, disconnected, refvars, limit_sem, io_mutex, errors, rxvars, tx,
                  handle, ret, locvars, err_seen >>

\* mutex_lock; dev->interface = NULL; mutex_unlock
usb_rt_disconnect_mark ==
  /\ pc[Life] = "dc_lock"
  /\ io_mutex = NoOwner
  /\ interface' = FALSE
  /\ Goto(Life, "dc_kill")
  /\ UNCHANGED << intfdata, registered, disconnected, refvars, limit_sem,
                  io_mutex, errors,
                  rxvars, tx, handle, op, ret, locvars, err_seen >>

\* usb_kill_anchored_urbs(&dev->submitted)
usb_rt_disconnect_kill ==
  /\ pc[Life] = "dc_kill"
  /\ IF Anchored = {}
       THEN /\ Goto(Life, "dc_put")
            /\ UNCHANGED tx
       ELSE /\ tx' = KillAnchored
            /\ Goto(Life, "ka_wait")
  /\ UNCHANGED << devvars, refvars, limit_sem, io_mutex, errors, rxvars,
                  handle, op, ret, locvars, err_seen >>

\* kref_put(&dev->kref, usb_rt_delete)
usb_rt_disconnect_put ==
  /\ pc[Life] = "dc_put"
  /\ kref_put
  /\ pc' = [pc EXCEPT ![Life] = "gone"]
  /\ op' = [op EXCEPT ![Life] = "none"]
  /\ UNCHANGED << devvars, limit_sem, io_mutex, errors, rxvars, tx,
                  handle, ret, locvars, err_seen >>

\* usb_rt_suspend: dev is non-NULL, usb_rt_draw_down(dev) without io_mutex
usb_rt_suspend ==
  /\ pc[Life] = "idle"
  /\ intfdata
  /\ pc' = [pc EXCEPT ![Life] = "dd_wait"]
  /\ op' = [op EXCEPT ![Life] = "suspend"]
  /\ UNCHANGED << devvars, refvars, limit_sem, io_mutex, errors, rxvars, tx,
                  handle, ret, locvars, err_seen >>

\* usb_rt_resume: return 0
usb_rt_resume ==
  /\ pc[Life] = "suspended"
  /\ pc' = [pc EXCEPT ![Life] = "idle"]
  /\ op' = [op EXCEPT ![Life] = "none"]
  /\ UNCHANGED << devvars, refvars, limit_sem, io_mutex, errors, rxvars, tx,
                  handle, ret, locvars, err_seen >>

\* usb_rt_pre_reset: mutex_lock; usb_rt_draw_down; return with the lock held
usb_rt_pre_reset ==
  /\ pc[Life] = "idle"
  /\ io_mutex = NoOwner
  /\ io_mutex' = Life
  /\ pc' = [pc EXCEPT ![Life] = "dd_wait"]
  /\ op' = [op EXCEPT ![Life] = "pre_reset"]
  /\ UNCHANGED << devvars, refvars, limit_sem, errors, rxvars, tx,
                  handle, ret, locvars, err_seen >>

\* usb_rt_post_reset: dev->errors = -EPIPE; mutex_unlock
usb_rt_post_reset ==
  /\ pc[Life] = "reset_held"
  /\ errors' = EPIPE
  /\ err_seen' = 0
  /\ io_mutex' = NoOwner
  /\ pc' = [pc EXCEPT ![Life] = "idle"]
  /\ op' = [op EXCEPT ![Life] = "none"]
  /\ across' = [p \in Callers |->
                  across[p] \/ pc[p] \in {"r_lock", "w_lock"}]
  /\ UNCHANGED << devvars, refvars, limit_sem, rxvars, tx,
                  handle, ret, cnt, nb, lrv, chunk >>

\* ---- the WRITES_IN_FLIGHT = 1 driver (lines 703-1495) ----------------------
WRITES_IN_FLIGHT_v2 == 1

\* usb_rt_probe: kzalloc zeroes the session; bulk_in_size is assigned twice,
\* from the bulk-in and then from the bulk-out endpoint (both MaxPacket here),
\* and bulk_out_size is never assigned
ProbeSizes_v2 ==
  LET zeroed  == [bulk_in_size |-> 0, bulk_out_size |-> 0]
      with_in == [zeroed EXCEPT !.bulk_in_size = MaxPacket]
  IN  [with_in EXCEPT !.bulk_in_size = MaxPacket]

bulk_out_size == ProbeSizes_v2.bulk_out_size

\* the counts a caller passes to write(): none, a small one and one above the
\* packet size of the bulk-out endpoint
WriteCounts_v2 == {0, MaxWrite, MaxPacket + MaxWrite}

\* size_t writesize = min(count, (size_t)dev->bulk_out_size)
writesize_v2(c) == Min(c, bulk_out_size)

Init_v2 ==
  /\ \E ok \in BOOLEAN : usb_rt_probe(ok)
  /\ limit_sem = WRITES_IN_FLIGHT_v2
  /\ io_mutex = NoOwner
  /\ errors = OK
  /\ ongoing_read = FALSE
  /\ bulk_in_filled = 0 /\ bulk_in_copied = 0
  /\ rx_urb = "idle" /\ rx_len = 0
  /\ tx = [i \in Urbs |-> [st |-> "unused", kills |-> 0, rel |-> 0, len |-> 0]]
  /\ handle = [p \in Callers |-> FALSE]
  /\ op = [p \in Procs |-> "none"]
  /\ cnt = [p \in Callers |-> 0]
  /\ nb = [p \in Callers |-> FALSE]
  /\ lrv = [p \in Callers |-> OK]
  /\ chunk = [p \in Callers |-> 0]
  /\ ret = NoResult
  /\ err_seen = 0
  /\ across = [p \in Callers |-> FALSE]

\* usb_rt_release: usb_autopm_put_interface, without io_mutex
usb_rt_release_v2(p) ==
  /\ Idle(p) /\ handle[p]
  /\ Call(p, "release", "rel_put")
  /\ UNCHANGED << devvars, refvars, limit_sem, io_mutex, errors, rxvars, tx,
                  handle, locvars, err_seen >>

\* mutex_lock_interruptible, then the test of dev->disconnected
usb_rt_read_lock_v2(p) ==
  /\ pc[p] = "r_lock"
  /\ \/ /\ io_mutex = NoOwner
        /\ IF ~disconnected
             THEN /\ io_mutex' = p
                  /\ Goto(p, "r_retry")
                  /\ UNCHANGED << op, ret, locvars >>
             ELSE /\ Return(p, Result("read", "ENODEV", 0))
                  /\ UNCHANGED io_mutex
     \/ /\ io_mutex # NoOwner
        /\ Return(p, Result("read", "EINTR", 0))
        /\ UNCHANGED io_mutex
  /\ UNCHANGED << devvars, refvars, limit_sem, errors, rxvars, tx,
                  handle, err_seen >>

\* a timed wait that cancels the receive URB when the time is up
usb_rt_read_wait_v2_kill(p) ==
  /\ pc[p] = "r_wait"
  /\ IF ~ongoing_read
       THEN /\ Goto(p, "r_err")
            /\ UNCHANGED << io_mutex, op, ret, locvars, rx_urb >>
       ELSE /\ \E e \in {"ERESTARTSYS", "ETIMEDOUT"} :
                 ReadExit(p, Result("read", e, 0))
            /\ rx_urb' = IF RxBusy THEN "unlinked" ELSE rx_urb
  /\ UNCHANGED << devvars, refvars, limit_sem, errors, ongoing_read,
                  bulk_in_filled, bulk_in_copied, rx_len, tx,
                  handle, err_seen >>

\* rv = wait_event_interruptible_timeout(dev->bulk_in_wait, !dev->ongoing_read,
\* msecs_to_jiffies(10)); rv < 0 is -ERESTARTSYS, rv == 0 becomes -ETIMEDOUT
usb_rt_read_wait_v2(p) ==
  /\ pc[p] = "r_wait"
  /\ IF ~ongoing_read
       THEN /\ Goto(p, "r_err")
            /\ UNCHANGED << io_mutex, op, ret, locvars >>
       ELSE \E e \in {"ERESTARTSYS", "ETIMEDOUT"} :
               ReadExit(p, Result("read", e, 0))
  /\ UNCHANGED << devvars, refvars, limit_sem, errors, rxvars, tx,
                  handle, err_seen >>

\* usb_rt_poll: the call waits for io_mutex
usb_rt_poll_v2(p) ==
  /\ Idle(p) /\ handle[p]
  /\ Call(p, "poll_v2", "p_lock")
  /\ UNCHANGED << devvars, refvars, limit_sem, io_mutex, errors, rxvars, tx,
                  handle, locvars, err_seen >>

\* rv = mutex_lock_interruptible(&dev->io_mutex); if (rv < 0) return rv;
\* if (dev->disconnected) retval = -ENODEV
usb_rt_poll_lock_v2(p) ==
  /\ pc[p] = "p_lock"
  /\ \/ /\ io_mutex = NoOwner
        /\ IF ~disconnected
             THEN /\ io_mutex' = p
                  /\ Goto(p, "p_flag")
                  /\ UNCHANGED << op, ret, locvars >>
             ELSE /\ Return(p, Result("poll", "ENODEV", 0))
                  /\ UNCHANGED io_mutex
     \/ /\ io_mutex # NoOwner
        /\ Return(p, Result("poll", "EINTR", 0))
        /\ UNCHANGED io_mutex
  /\ UNCHANGED << devvars, refvars, limit_sem, errors, rxvars, tx,
                  handle, err_seen >>

\* ongoing_io: default mask; else dev->errors: POLLERR; else unread bytes:
\* POLLIN; else usb_rt_do_read_io(dev, dev->bulk_in_size)
usb_rt_poll_flag_v2(p) ==
  /\ pc[p] = "p_flag"
  /\ CASE ongoing_read ->
            ReadExit(p, Result("poll", OK, PollDefault))
       [] ~ongoing_read /\ errors # OK ->
            ReadExit(p, Result("poll", OK, POLLERR))
       [] ~ongoing_read /\ errors = OK
            /\ SizeSub(bulk_in_filled, bulk_in_copied) # 0 ->
            ReadExit(p, Result("poll", OK, PollReadable))
       [] OTHER ->
            /\ Goto(p, "io_flag")
            /\ UNCHANGED << io_mutex, op, ret, locvars >>
  /\ UNCHANGED << devvars, refvars, limit_sem, errors, rxvars, tx,
                  handle, err_seen >>

\* usb_rt_write: if (count == 0) goto exit
usb_rt_write_v2(p, c, n) ==
  /\ Idle(p) /\ handle[p]
  /\ IF c = 0
       THEN Return(p, Result("write", OK, 0))
       ELSE /\ Call(p, "write_v2", "w_sem")
            /\ cnt' = [cnt EXCEPT ![p] = c]
            /\ nb' = [nb EXCEPT ![p] = n]
            /\ UNCHANGED << lrv, chunk, across >>
  /\ UNCHANGED << devvars, refvars, limit_sem, io_mutex, errors, rxvars, tx,
                  handle, err_seen >>

\* retval = dev->errors; if (retval < 0) dev->errors = 0, under err_lock;
\* then copy_from_user(dev->bulk_out_buffer, user_buffer, writesize)
usb_rt_write_errors_v2(p) ==
  /\ pc[p] = "w_err"
  /\ IF errors # OK
       THEN /\ errors' = OK
            /\ err_seen' = Min(err_seen + 1, 2)
            /\ WriteError(p, ErrXlate(errors))
       ELSE /\ UNCHANGED << errors, err_seen >>
            /\ \/ /\ writesize_v2(cnt[p]) > 0
                  /\ WriteError(p, "EFAULT")
               \/ /\ Goto(p, "w_lock")
                  /\ UNCHANGED << limit_sem, op, ret, locvars >>
  /\ UNCHANGED << devvars, refvars, io_mutex, rxvars, tx, handle >>

\* usb_rt_write whose failed usb_submit_urb leaves through exit, without up()
usb_rt_write_submit_v2_noup(p) ==
  /\ pc[p] = "w_lock"
  /\ io_mutex = NoOwner
  /\ IF disconnected
       THEN /\ WriteError(p, "ENODEV")
            /\ UNCHANGED tx
       ELSE \/ /\ tx' = [tx EXCEPT ![1] = [st |-> "inflight", kills |-> 0,
                                           rel |-> 0,
                                           len |-> writesize_v2(cnt[p])]]
               /\ Return(p, Result("write", OK, writesize_v2(cnt[p])))
               /\ UNCHANGED limit_sem
            \/ /\ \E e \in {"ENOMEM", "ESHUTDOWN"} :
                    Return(p, Result("write", e, 0))
               /\ tx' = [tx EXCEPT ![1].st = "stale"]
               /\ UNCHANGED limit_sem
  /\ UNCHANGED << devvars, refvars, io_mutex, errors, rxvars, handle, err_seen >>

\* mutex_lock; if (dev->disconnected) -ENODEV; usb_fill_bulk_urb(bulk_out_urb,
\* .., writesize, ..); usb_anchor_urb; usb_submit_urb; mutex_unlock; on failure
\* error_unanchor: usb_unanchor_urb(urb) with urb == NULL leaves bulk_out_urb
\* on dev->submitted
usb_rt_write_submit_v2(p) ==
  /\ pc[p] = "w_lock"
  /\ io_mutex = NoOwner
  /\ IF disconnected
       THEN /\ WriteError(p, "ENODEV")
            /\ UNCHANGED tx
       ELSE \/ /\ tx' = [tx EXCEPT ![1] = [st |-> "inflight", kills |-> 0,
                                           rel |-> 0,
                                           len |-> writesize_v2(cnt[p])]]
               /\ Return(p, Result("write", OK, writesize_v2(cnt[p])))
               /\ UNCHANGED limit_sem
            \/ /\ \E e \in {"ENOMEM", "ESHUTDOWN"} : WriteError(p, e)
               /\ tx' = [tx EXCEPT ![1].st = "stale"]
  /\ UNCHANGED << devvars, refvars, io_mutex, errors, rxvars, handle, err_seen >>

\* mutex_lock; dev->disconnected = 1; mutex_unlock; then usb_kill_urb(bulk_in_urb)
usb_rt_disconnect_mark_v2 ==
  /\ pc[Life] = "dc_lock"
  /\ io_mutex = NoOwner
  /\ disconnected' = TRUE
  /\ Goto(Life, "dd_killrx")
  /\ UNCHANGED << intfdata, registered, interface, refvars, limit_sem,
                  io_mutex, errors, rxvars, tx, handle, op, ret, locvars,
                  err_seen >>

\* ---- the receive engine with its callers and the lifecycle events --------
Readers == {"c1"}
Pollers == {"c2"}

Writers == {"c2"}

OpenClose ==
  \/ \E p \in Callers : usb_rt_open(p)
  \/ \E p \in Callers : usb_rt_open_get(p)
  \/ \E p \in Callers : usb_rt_release(p)
  \/ \E p \in Callers : usb_rt_release_put(p)

ReadOps ==
  \/ \E p \in Readers, c \in 0..MaxCount, n \in BOOLEAN : usb_rt_read(p, c, n)
  \/ \E p \in Callers : usb_rt_read_lock(p)
  \/ \E p \in Callers : usb_rt_read_retry(p)
  \/ \E p \in Callers : usb_rt_read_wait(p)
  \/ \E p \in Callers : usb_rt_read_errors(p)
  \/ \E p \in Callers : usb_rt_read_report(p)
  \/ \E p \in Callers : usb_rt_read_data(p)
  \/ \E p \in Callers : usb_rt_read_copy(p)
  \/ \E p \in Callers : usb_rt_do_read_io(p)
  \/ \E p \in Callers : usb_rt_do_read_io_reset(p)
  \/ \E p \in Callers : usb_rt_do_read_io_submit(p)

PollOps ==
  \/ \E p \in Pollers : usb_rt_poll(p)
  \/ \E p \in Callers : usb_rt_poll_avail(p)

WriteOps(W) ==
  \/ \E p \in W, c \in 0..MaxWrite, n \in BOOLEAN : usb_rt_write(p, c, n)
  \/ \E p \in Callers : usb_rt_write_down(p)
  \/ \E p \in Callers : usb_rt_write_errors(p)
  \/ \E p \in Callers : usb_rt_write_submit(p)
  \/ \E i \in Urbs, s \in {OK, EPIPE, EPROTO, ENOENT} :
        usb_rt_write_bulk_callback(i, s)
  \/ \E p \in Procs : usb_kill_anchored_urbs(p)

FlushOps(F) ==
  \/ \E p \in F : usb_rt_flush(p)
  \/ \E p \in Callers : usb_rt_flush_errors(p)
  \/ \E p \in Procs : usb_rt_draw_down(p)
  \/ \E p \in Procs : usb_rt_draw_down_kill(p)
  \/ \E p \in Procs : usb_rt_draw_down_done(p)

Disconnect ==
  \/ usb_rt_disconnect
  \/ usb_rt_disconnect_mark
  \/ usb_rt_disconnect_kill
  \/ usb_rt_disconnect_put

Suspend ==
  \/ usb_rt_suspend
  \/ usb_rt_resume

Reset ==
  \/ usb_rt_pre_reset
  \/ usb_rt_post_reset

RxComplete(S) ==
  \E s \in S, l \in 0..MaxPacket : usb_rt_read_bulk_callback(s, l)

\* one reading thread and one polling thread on the session
Next ==
  \/ OpenClose
  \/ ReadOps
  \/ PollOps
  \/ RxComplete({OK, EPIPE, EPROTO, ENOENT})
  \/ FlushOps(Readers)
  \/ Disconnect
  \/ Suspend
  \/ Reset

Spec == Init /\ [][Next]_vars

\* the send path: two writing threads, one of which also flushes
NextTx ==
  \/ OpenClose
  \/ WriteOps(Callers)
  \/ FlushOps(Readers)
  \/ Disconnect
  \/ Suspend
  \/ Reset

SpecTx == Init /\ [][NextTx]_vars

\* the error slot: a reading and flushing thread against a writing thread
NextErr ==
  \/ OpenClose
  \/ ReadOps
  \/ RxComplete({OK, EPIPE, EPROTO, ENOENT})
  \/ WriteOps(Writers)
  \/ FlushOps(Readers)

SpecErr == Init /\ [][NextErr]_vars

\* the receive engine when no transfer ever fails and the bus is never reset
NextNoFail ==
  \/ OpenClose
  \/ ReadOps
  \/ PollOps
  \/ RxComplete({OK, ENOENT})
  \/ FlushOps(Readers)
  \/ Disconnect
  \/ Suspend

SpecNoFail == Init /\ [][NextNoFail]_vars

\* two reading threads on the session
ReadCall(R) ==
  \E p \in R, c \in 0..MaxCount, n \in BOOLEAN : usb_rt_read(p, c, n)

NextRd ==
  \/ OpenClose
  \/ ReadCall(Callers)
  \/ ReadOps
  \/ RxComplete({OK, EPIPE, EPROTO, ENOENT})

SpecRd == Init /\ [][NextRd]_vars

\* a reading thread and a writing thread across bus resets
NextReset ==
  \/ OpenClose
  \/ ReadOps
  \/ RxComplete({OK, EPIPE, EPROTO, ENOENT})
  \/ WriteOps(Writers)
  \/ FlushOps(Readers)
  \/ Reset

SpecReset == Init /\ [][NextReset]_vars

\* a reading thread and a writing thread up to and after disconnect
NextLive ==
  \/ OpenClose
  \/ ReadOps
  \/ RxComplete({OK})
  \/ WriteOps(Writers)
  \/ Disconnect

\* Scheduling: a thread that can run takes its next step; a thread that waits
\* for io_mutex gets it if it is released again and again; a sleeper on
\* bulk_in_wait runs once ongoing_read is clear; usb_kill_urb makes the USB
\* core give an unlinked URB back.  Nothing makes the device answer a
\* transfer ("IO may take forever", line 287) and nothing makes a signal or
\* a new call arrive.
FairLive ==
  /\ \A p \in Callers :
       /\ WF_vars(usb_rt_open_get(p))
       /\ WF_vars(usb_rt_release_put(p))
       /\ SF_vars(usb_rt_read_lock(p) /\ io_mutex = NoOwner)
       /\ WF_vars(usb_rt_read_retry(p))
       /\ WF_vars(usb_rt_read_wait(p) /\ ~ongoing_read)
       /\ WF_vars(usb_rt_read_errors(p))
       /\ WF_vars(usb_rt_read_report(p))
       /\ WF_vars(usb_rt_read_data(p))
       /\ WF_vars(usb_rt_read_copy(p))
       /\ WF_vars(usb_rt_do_read_io(p))
       /\ WF_vars(usb_rt_do_read_io_reset(p))
       /\ WF_vars(usb_rt_do_read_io_submit(p))
       /\ WF_vars(usb_rt_write_down(p))
       /\ WF_vars(usb_rt_write_errors(p))
       /\ SF_vars(usb_rt_write_submit(p))
  /\ WF_vars(\E i \in Urbs : usb_rt_write_bulk_callback(i, ENOENT))
  /\ WF_vars(usb_kill_anchored_urbs(Life))
  /\ SF_vars(usb_rt_disconnect_mark)
  /\ WF_vars(usb_rt_disconnect_kill)
  /\ WF_vars(usb_rt_disconnect_put)

SpecLive == Init /\ [][NextLive]_vars /\ FairLive

\* a reading thread and a writing thread up to and after disconnect, on a
\* device whose sends do not fail
NextGone ==
  \/ OpenClose
  \/ ReadOps
  \/ RxComplete({OK, EPIPE})
  \/ \E p \in Writers, n \in BOOLEAN : usb_rt_write(p, MaxWrite, n)
  \/ \E p \in Callers : usb_rt_write_down(p)
  \/ \E p \in Callers : usb_rt_write_errors(p)
  \/ \E p \in Callers : usb_rt_write_submit(p)
  \/ \E i \in Urbs, s \in {OK, ENOENT} : usb_rt_write_bulk_callback(i, s)
  \/ \E p \in Procs : usb_kill_anchored_urbs(p)
  \/ Disconnect

SpecGone == Init /\ [][NextGone]_vars

\* a reading thread with a writing thread whose sends can fail
NextKeep ==
  \/ OpenClose
  \/ ReadOps
  \/ RxComplete({OK, EPIPE})
  \/ \E p \in Writers, n \in BOOLEAN : usb_rt_write(p, MaxWrite, n)
  \/ \E p \in Callers : usb_rt_write_down(p)
  \/ \E p \in Callers : usb_rt_write_errors(p)
  \/ \E p \in Callers : usb_rt_write_submit(p)
  \/ \E i \in Urbs, s \in {OK, EPIPE, EPROTO} : usb_rt_write_bulk_callback(i, s)

SpecKeep == Init /\ [][NextKeep]_vars

\* a loopback peer: it takes the bytes of a send URB and returns them in the
\* receive URB that is in flight, as much of them as that URB is long; both
\* completion handlers run with status 0 (the k-th byte a caller writes is k,
\* so a transfer's bytes are given by its offset and length)
LoopbackEcho(i) ==
  /\ tx[i].st = "inflight" /\ rx_urb = "inflight"
  /\ tx' = [tx EXCEPT ![i].st = "done", ![i].len = 0,
                       ![i].rel = tx[i].rel + 1]
  /\ limit_sem' = limit_sem + 1
  /\ bulk_in_filled' = Min(tx[i].len, rx_len)
  /\ ongoing_read' = FALSE
  /\ rx_urb' = "idle"
  /\ UNCHANGED << devvars, refvars, io_mutex, errors, bulk_in_copied, rx_len,
                  handle, pc, op, ret, locvars, err_seen >>

\* a reading thread and a writing thread in front of the loopback peer; a
\* receive only completes with data through the peer
NextLoop ==
  \/ OpenClose
  \/ ReadOps
  \/ RxComplete({EPIPE, ENOENT})
  \/ WriteOps(Writers)
  \/ \E p \in Writers, n \in BOOLEAN : usb_rt_write(p, MaxPacket + MaxWrite, n)
  \/ \E i \in Urbs : LoopbackEcho(i)
  \/ FlushOps(Readers)

SpecLoop == Init /\ [][NextLoop]_vars

\* ---- the WRITES_IN_FLIGHT = 1 driver with its callers ----------------------
OpenClose_v2 ==
  \/ \E p \in Callers : usb_rt_open(p)
  \/ \E p \in Callers : usb_rt_open_get(p)
  \/ \E p \in Callers : usb_rt_release_v2(p)
  \/ \E p \in Callers : usb_rt_release_put(p)

ReadOps_v2 ==
  \/ ReadCall(Readers)
  \/ \E p \in Callers : usb_rt_read_lock_v2(p)
  \/ \E p \in Callers : usb_rt_read_retry(p)
  \/ \E p \in Callers : usb_rt_read_wait_v2(p)
  \/ \E p \in Callers : usb_rt_read_errors(p)
  \/ \E p \in Callers : usb_rt_read_report(p)
  \/ \E p \in Callers : usb_rt_read_data(p)
  \/ \E p \in Callers : usb_rt_read_copy(p)
  \/ \E p \in Callers : usb_rt_do_read_io(p)
  \/ \E p \in Callers : usb_rt_do_read_io_reset(p)
  \/ \E p \in Callers : usb_rt_do_read_io_submit(p)

PollOps_v2 ==
  \/ \E p \in Pollers : usb_rt_poll_v2(p)
  \/ \E p \in Callers : usb_rt_poll_lock_v2(p)
  \/ \E p \in Callers : usb_rt_poll_flag_v2(p)

WriteOps_v2(W) ==
  \/ \E p \in W, c \in WriteCounts_v2, n \in BOOLEAN :
        usb_rt_write_v2(p, c, n)
  \/ \E p \in Callers : usb_rt_write_down(p)
  \/ \E p \in Callers : usb_rt_write_errors_v2(p)
  \/ \E p \in Callers : usb_rt_write_submit_v2(p)
  \/ \E i \in Urbs, s \in {OK, EPIPE, EPROTO, ENOENT} :
        usb_rt_write_bulk_callback(i, s)
  \/ \E p \in Procs : usb_kill_anchored_urbs(p)

Disconnect_v2 ==
  \/ usb_rt_disconnect
  \/ usb_rt_disconnect_mark_v2
  \/ usb_rt_disconnect_kill
  \/ usb_rt_disconnect_put

\* one reading thread and one polling thread on the session
Next_v2 ==
  \/ OpenClose_v2
  \/ ReadOps_v2
  \/ PollOps_v2
  \/ RxComplete({OK, EPIPE, EPROTO, ENOENT})
  \/ FlushOps(Readers)
  \/ Disconnect_v2
  \/ Suspend
  \/ Reset

Spec_v2 == Init_v2 /\ [][Next_v2]_vars

\* the send path: two writing threads, one of which also flushes
NextTx_v2 ==
  \/ OpenClose_v2
  \/ WriteOps_v2(Callers)
  \/ FlushOps(Readers)
  \/ Disconnect_v2
  \/ Suspend
  \/ Reset

SpecTx_v2 == Init_v2 /\ [][NextTx_v2]_vars

\* two writing threads, one of which also flushes, under fair scheduling
NextLive_v2 ==
  \/ OpenClose_v2
  \/ WriteOps_v2(Callers)
  \/ FlushOps(Readers)

\* Scheduling: a thread that can run takes its next step; down() and
\* mutex_lock are served if the semaphore or mutex is released again and
\* again; every send URB the USB core holds is given back (it completes or
\* is cancelled).  Nothing makes a signal or a new call arrive.
FairLive_v2 ==
  /\ \A p \in Callers :
       /\ WF_vars(usb_rt_open_get(p))
       /\ WF_vars(usb_rt_release_put(p))
       /\ SF_vars(usb_rt_write_down(p) /\ limit_sem > 0)
       /\ WF_vars(usb_rt_write_errors_v2(p))
       /\ SF_vars(usb_rt_write_submit_v2(p))
       /\ WF_vars(usb_rt_flush_errors(p))
       /\ WF_vars(usb_rt_draw_down(p))
       /\ WF_vars(usb_kill_anchored_urbs(p))
       /\ WF_vars(usb_rt_draw_down_kill(p))
       /\ WF_vars(usb_rt_draw_down_done(p))
  /\ WF_vars(\E i \in Urbs, s \in {OK, EPIPE, EPROTO, ENOENT} :
                usb_rt_write_bulk_callback(i, s))

SpecLive_v2 == Init_v2 /\ [][NextLive_v2]_vars /\ FairLive_v2

\* ---- claims --------------------------------------------------------------
RxSubmitted == rx_urb = "idle" /\ rx_urb' = "inflight"
TxSubmitted == \E i \in Urbs : tx[i].st = "unused" /\ tx'[i].st = "inflight"
OpenHandles == {p \in Callers : handle[p]}
AttachRef   == IF pc[Life] = "gone" THEN 0 ELSE 1

\* C1: usb_submit_urb is never called on the receive URB while an earlier
\* submission of it has not yet had its completion handler run, so at most
\* one receive transfer is outstanding.
C1_SingleReceive ==
  [][\A p \in Callers :
       (pc[p] = "io_submit" /\ pc'[p] # "io_submit") => ~RxBusy]_vars

\* C2: every send URB that was submitted has its admission slot released
\* exactly once, by its completion handler: none while it is in flight
\* (even when unlinked twice), one when it is done, and limit_sem accounts
\* for exactly the slots held by writers and by URBs in flight.
C2_SlotReleasedOnce ==
  /\ \A i \in Urbs :
       /\ tx[i].st \in {"unused", "inflight", "unlinked"} => tx[i].rel = 0
       /\ tx[i].st = "done" => tx[i].rel = 1
  /\ limit_sem + Cardinality(SlotHolders) + Cardinality(Anchored) = WRITES_IN_FLIGHT

C2_Witness ==
  \E i \in Urbs : tx[i].st = "done" /\ tx[i].kills = 2 /\ tx[i].rel = 1

\* C3: 0 <= copied <= filled in every state, and a read that returns a byte
\* count returns n <= count and n <= filled - copied at the moment it copies.
C3_CopiedWithinFilled ==
  [][/\ bulk_in_copied' <= bulk_in_filled'
     /\ \A p \in Callers :
          (pc[p] = "r_copy" /\ pc'[p] = "idle" /\ ret'.err = OK) =>
             /\ ret'.n <= cnt[p]
             /\ ret'.n <= bulk_in_filled - bulk_in_copied]_vars

\* C4: once disconnect has cleared dev->interface no receive and no send
\* URB is submitted.
C4_NoSubmitAfterDisconnect ==
  [][(RxSubmitted \/ TxSubmitted) => interface]_vars

\* C5: kref equals the attach-time reference (held until disconnect drops
\* it) plus the number of open handles; usb_rt_delete runs at most once,
\* exactly when kref is zero, and never while a handle is open.
C5_RefCount ==
  /\ kref = AttachRef + Cardinality(OpenHandles)
  /\ deleted = (IF kref = 0 THEN 1 ELSE 0)
  /\ deleted > 0 => OpenHandles = {}

C5_Witness ==
  /\ deleted = 1 /\ kref = 0
  /\ ret.op = "release" /\ pc[Life] = "gone"

\* C6: when usb_rt_delete has freed the session no receive and no send URB
\* is still outstanding.
C6_NoTransferAfterFree ==
  deleted > 0 => (~RxBusy /\ Anchored = {})

\* C7: a failure recorded in dev->errors is fetched, and so returned as an
\* error, by at most one of read, write and flush.
C7_ReportedOnce == err_seen <= 1

\* C8: a read that found a failure in dev->errors returns -EPIPE for a
\* stall and -EIO for any other code and leaves the slot empty, so that
\* after it returned the slot only holds a failure recorded later, which no
\* call has fetched yet.
C8_StallReportedOnce ==
  /\ [][\A p \in Callers :
          (pc[p] = "r_clear" /\ pc'[p] = "idle") =>
             /\ ret'.op = "read"
             /\ ret'.err = (IF lrv[p] = "EPIPE" THEN "EPIPE" ELSE "EIO")
             /\ errors' = "OK"]_vars
  /\ []((ret.op = "read" /\ ret.err \in {"EPIPE", "EIO"} /\ errors # "OK")
          => err_seen = 0)

C8_Witness ==
  /\ ret.op = "read" /\ ret.err = "EPIPE"
  /\ errors = "OK" /\ err_seen = 1
  /\ pc[Life] = "idle" /\ ~RxBusy

\* C9: a benign unlink status (-ENOENT, -ECONNRESET, -ESHUTDOWN) of a
\* cancelled URB is never stored in dev->errors.
C9_BenignFiltered == errors \notin Benign

\* C10: when no transfer fails and the bus is not reset, every flush
\* returns 0, whatever the receive engine was doing when it started.
C10_FlushClean == ret.op = "flush" => ret.err = OK

\* C11: while a receive is outstanding a non-blocking read returns -EAGAIN
\* without sleeping, also when another read sleeps on that receive (so it is
\* never found waiting for io_mutex held by the sleeping read), and a
\* blocking read sleeps until the completion handler cleared ongoing_read.
C11_NonBlockingNeverWaits ==
  /\ [](\A p \in Callers :
          (pc[p] = "r_lock" /\ nb[p] /\ RxBusy) =>
             ~(\E q \in Callers : io_mutex = q /\ pc[q] = "r_wait"))
  /\ [][\A p \in Callers :
          /\ (pc[p] = "r_retry" /\ ongoing_read /\ nb[p] /\ pc'[p] # "r_retry")
               => (pc'[p] = "idle" /\ ret'.err = "EAGAIN")
          /\ (pc[p] = "r_wait" /\ pc'[p] = "r_err") => ~ongoing_read]_vars

\* C12: a successful write(count > 0) submits one send URB that carries the
\* first min(count, M) bytes and returns min(count, M), where M is the size
\* of the send buffer: the packet size of the bulk-out endpoint that
\* usb_rt_probe is to store in bulk_out_size.
C12_WriteTruncates ==
  [][\A p \in Callers :
       (pc[p] = "w_lock" /\ pc'[p] = "idle" /\ ret'.err = OK) =>
          /\ ret'.n = Min(cnt[p], MaxPacket)
          /\ \E i \in Urbs :
               /\ tx[i].st # "inflight" /\ tx'[i].st = "inflight"
               /\ tx'[i].len = Min(cnt[p], MaxPacket)]_vars

\* C13: when disconnect starts while a send URB is in flight (its slot
\* held), disconnect returns, after that limit_sem is back at
\* WRITES_IN_FLIGHT, and every call that was in progress returns.
C13_DisconnectDrains ==
  /\ (pc[Life] = "dc_lock" /\ InFlight # {}) ~> (pc[Life] = "gone")
  /\ (pc[Life] = "dc_lock" /\ InFlight # {})
        ~> (pc[Life] = "gone" /\ limit_sem = WRITES_IN_FLIGHT)
  /\ \A p \in Callers :
       (pc[Life] = "dc_lock" /\ InFlight # {} /\ pc[p] # "idle")
          ~> (pc[p] = "idle")

\* C14: a read or write that was waiting for io_mutex when post_reset
\* released it returns -EPIPE when it resumes (unless a signal ends its wait
\* for the mutex first).
C14_BlockedAcrossReset ==
  [][\A p \in Callers :
       (across[p] /\ pc[p] # "idle" /\ pc'[p] = "idle") =>
          ret'.err \in {EPIPE, "EINTR"}]_vars

\* C15: from the return of usb_rt_draw_down inside pre_reset until
\* post_reset unlocks io_mutex, and from its return inside flush until flush
\* unlocks, no receive and no send URB is outstanding (so none is submitted
\* in that window either).
C15_QuiescentWhileHeld ==
  (pc[Life] = "reset_held" \/ \E p \in Callers : pc[p] = "f_err")
     => (~RxBusy /\ InFlight = {})

\* C16: disconnect unregisters the node before it sets the torn-down flag,
\* sets the flag with io_mutex taken, and drops the attach reference only
\* after every send URB and the receive URB have been cancelled: when it
\* returns no transfer is outstanding.
C16_DisconnectOrder ==
  [][/\ (pc[Life] = "dc_lock" /\ pc'[Life] # "dc_lock") =>
          /\ ~registered /\ ~intfdata
          /\ io_mutex = NoOwner
          /\ (~interface' \/ disconnected')
     /\ (pc[Life] = "dc_put" /\ pc'[Life] = "gone") =>
          /\ (~interface \/ disconnected)
          /\ ~RxBusy /\ InFlight = {}]_vars

\* C17: usb_rt_do_read_io (fill the URB, zero filled and copied, submit)
\* never runs while unread bytes remain (bulk_in_filled > bulk_in_copied),
\* whether read or poll called it, so unread data is never discarded.
C17_NoSubmitOverUnread ==
  [][(\E p \in Callers :
        /\ pc[p] \in {"io_flag", "io_reset", "io_submit"}
        /\ pc'[p] # pc[p])
     => ~(bulk_in_filled > bulk_in_copied)]_vars

\* C18: a read that returns a byte count copies from the buffer of exactly
\* one completed receive: no receive is in flight into the buffer while it
\* copies, and the 1..count bytes it returns lie inside that transfer, from
\* offset bulk_in_copied on; the receive a read submits has length
\* min(packet size, count).
C18_OneTransferPerRead ==
  [][\A p \in Callers :
       /\ (pc[p] = "r_copy" /\ pc'[p] = "idle" /\ ret'.err = OK) =>
            /\ ~RxBusy
            /\ ret'.n >= 1 /\ ret'.n <= cnt[p]
            /\ bulk_in_copied + ret'.n <= bulk_in_filled
            /\ bulk_in_copied' = bulk_in_copied + ret'.n
       /\ (pc[p] = "io_flag" /\ pc'[p] = "io_reset" /\ op[p] = "read") =>
            rx_len' = Min(MaxPacket, cnt[p])]_vars

HasBit(mask, b) == (mask \div b) % 2 = 1

\* C19: poll never waits for io_mutex; every poll returns a mask with
\* POLLOUT, with POLLERR whenever dev->errors is set, and with POLLIN
\* whenever unread bytes remain and no receive is outstanding; and it starts
\* a receive only when none is outstanding and no unread bytes remain.
C19_PollMask ==
  /\ [](\A p \in Callers : pc[p] = "p_lock" => io_mutex = NoOwner)
  /\ [][\A p \in Callers :
          /\ (ret'.who = p /\ ret'.op = "poll" /\ pc'[p] = "idle"
              /\ (pc[p] # "idle" \/ ret' # ret)) =>
               /\ ret'.err = OK
               /\ HasBit(ret'.n, POLLOUT)
               /\ errors # OK => HasBit(ret'.n, POLLERR)
               /\ (bulk_in_filled > bulk_in_copied /\ ~RxBusy)
                     => HasBit(ret'.n, POLLIN)
          /\ (op[p] \in {"poll", "poll_v2"} /\ pc[p] = "io_submit"
              /\ RxSubmitted) =>
               /\ ~RxBusy
               /\ ~(bulk_in_filled > bulk_in_copied)]_vars

\* C20: a read that fails with -EAGAIN, with -ERESTARTSYS or -EINTR
\* (interrupted) or with -ETIMEDOUT does not touch the receive: the URB, its
\* length, ongoing_read, bulk_in_filled, bulk_in_copied and dev->errors are
\* what they were, and after -EAGAIN, -ERESTARTSYS and -ETIMEDOUT the receive
\* it found is still outstanding, so a later read gets its data.
C20_FailedReadKeepsReceive ==
  [][\A p \in Callers :
       (pc[p] # "idle" /\ pc'[p] = "idle" /\ op[p] = "read"
        /\ ret'.err \in {"EAGAIN", "ERESTARTSYS", "EINTR", "ETIMEDOUT"}) =>
          /\ UNCHANGED << rx_urb, rx_len, ongoing_read, bulk_in_filled,
                          bulk_in_copied, errors >>
          /\ ret'.err # "EINTR" => (ongoing_read' /\ RxBusy')]_vars

C20_Witness ==
  /\ ret.op = "read" /\ ret.err = "ETIMEDOUT"
  /\ ongoing_read /\ rx_urb = "inflight"
  /\ \A p \in Callers : pc[p] = "idle"

\* C21: a blocking write that waits for a slot (limit_sem is 0) gets one
\* and returns, given that every submitted send URB is given back; and a
\* non-blocking write returns -EAGAIN only when limit_sem is 0 and every slot
\* is held by a write in progress or by a send URB in flight.
C21_WriterNotStarved ==
  /\ \A p \in Callers :
       (pc[p] = "w_sem" /\ ~nb[p] /\ limit_sem = 0) ~> (pc[p] = "idle")
  /\ [][\A p \in Callers :
          (pc[p] = "w_sem" /\ pc'[p] = "idle" /\ ret'.err = "EAGAIN") =>
             /\ limit_sem = 0
             /\ Cardinality(SlotHolders) + Cardinality(InFlight)
                  = WRITES_IN_FLIGHT_v2]_vars

\* C22: through a loopback peer the bytes one accepted write carries come
\* back whole in one receive transfer when the reader's count is large
\* enough (the receive URB has the full packet size), and the read that
\* finds them returns all of them from offset 0 if its count allows.
C22_RoundTrip ==
  [][/\ \A i \in Urbs :
          (tx[i].st = "inflight" /\ tx'[i].st = "done"
           /\ rx_urb = "inflight" /\ rx_urb' = "idle" /\ rx_len = MaxPacket)
             => bulk_in_filled' = tx[i].len
     /\ \A p \in Callers :
          (pc[p] = "r_copy" /\ pc'[p] = "idle" /\ ret'.err = OK
           /\ cnt[p] >= bulk_in_filled) =>
             (bulk_in_copied = 0 /\ ret'.n = bulk_in_filled)]_vars

\* C23: an open that finds no registered interface or no session returns
\* -ENODEV and leaves kref and the handle alone, and no open gets past the
\* lookup once disconnect has unregistered the node; an open whose
\* usb_autopm_get_interface fails returns that error with kref unchanged;
\* kref only ever grows by one, in the step of an open that returns 0.
C23_OpenErrors ==
  [][/\ \A p \in Callers :
          /\ (pc[p] = "idle" /\ pc'[p] = "o_get") => (registered /\ intfdata)
          /\ (pc[p] = "idle" /\ op'[p] = "none" /\ ret'.who = p
              /\ ret'.op = "open" /\ ret' # ret) =>
                /\ ~(registered /\ intfdata)
                /\ ret'.err = "ENODEV"
                /\ kref' = kref /\ handle' = handle
          /\ (pc[p] = "o_get" /\ pc'[p] = "idle") =>
                IF ret'.err = OK
                  THEN kref' = kref + 1 /\ handle'[p] /\ ~handle[p]
                  ELSE kref' = kref /\ handle' = handle /\ ret'.err = "EIO"
     /\ kref' > kref =>
          /\ kref' = kref + 1
          /\ \E p \in Callers :
               pc[p] = "o_get" /\ pc'[p] = "idle" /\ ret'.err = OK]_vars

C23_Witness ==
  /\ ret.op = "open" /\ ret.err = "ENODEV"
  /\ ~registered /\ pc[Life] = "gone"
  /\ OpenHandles # {} /\ kref = Cardinality(OpenHandles)

\* C24: once disconnect has cleared dev->interface, a read with count > 0
\* that gets io_mutex returns -ENODEV in that step with the receive engine,
\* the error slot and the mutex untouched, and no read is further inside;
\* a write that holds a slot and finds dev->interface cleared returns
\* -ENODEV, submits nothing and gives its slot back.
C24_TornDown ==
  [][\A p \in Callers :
       /\ (pc[p] = "r_lock" /\ ~interface /\ io_mutex = NoOwner
           /\ pc'[p] # "r_lock") =>
             /\ pc'[p] = "idle" /\ ret'.who = p
             /\ ret'.op = "read" /\ ret'.err = "ENODEV"
             /\ UNCHANGED << rxvars, errors, io_mutex, limit_sem, tx >>
       /\ (op[p] = "read" /\ ~interface) => pc[p] = "r_lock"
       /\ (pc[p] = "w_lock" /\ ~interface /\ pc'[p] # "w_lock") =>
             /\ pc'[p] = "idle" /\ ret'.who = p
             /\ ret'.op = "write" /\ ret'.err = "ENODEV"
             /\ limit_sem' = limit_sem + 1
             /\ p \in SlotHolders /\ p \notin SlotHolders'
             /\ UNCHANGED << tx, rxvars, errors, io_mutex >>]_vars

C24_Witness ==
  /\ ~interface
  /\ ret.op = "write" /\ ret.err = "ENODEV"
  /\ limit_sem = WRITES_IN_FLIGHT
  /\ \E p \in Callers : pc[p] = "r_lock" /\ io_mutex = NoOwner

\* C25: ongoing_read is set whenever the receive URB is submitted and not yet
\* given back, so a clear flag means that no receive is outstanding.
C25_FlagTracksReceive ==
  RxBusy => ongoing_read

\* C26: in every state the free count of limit_sem, the writes that hold a
\* slot and have not submitted, and the send URBs in flight add up to
\* WRITES_IN_FLIGHT; a write that stops holding its slot either gave it back
\* with up() or handed it to the URB it submitted.
C26_AdmissionConserved ==
  /\ [](limit_sem + Cardinality(SlotHolders) + Cardinality(InFlight)
          = WRITES_IN_FLIGHT_v2)
  /\ [][\A p \in Callers :
          (p \in SlotHolders /\ p \notin SlotHolders') =>
             \/ /\ ret'.err # OK
                /\ limit_sem' = limit_sem + 1
                /\ InFlight' = InFlight
             \/ /\ ret'.err = OK
                /\ limit_sem' = limit_sem
                /\ Cardinality(InFlight') = Cardinality(InFlight) + 1]_vars

C26_Witness ==
  /\ ret.op = "write" /\ ret.err \in {"ENOMEM", "ESHUTDOWN"}
  /\ tx[1].st = "stale"
  /\ limit_sem = WRITES_IN_FLIGHT_v2

\* C27: a thread that is not inside a file operation does not own io_mutex,
\* and every return of a read that got the mutex releases it; the mutex
\* only changes hands through a release by its owner; between lifecycle
\* callbacks the USB core's thread owns it exactly from the return of
\* pre_reset to post_reset, which releases it.
C27_LockBalanced ==
  /\ [](\A p \in Callers : pc[p] = "idle" => io_mutex # p)
  /\ [](pc[Life] \in {"idle", "gone", "suspended"} => io_mutex # Life)
  /\ [](pc[Life] = "reset_held" => io_mutex = Life)
  /\ [][/\ (io_mutex # NoOwner /\ io_mutex' # io_mutex) =>
             (io_mutex' = NoOwner /\ pc'[io_mutex] # pc[io_mutex])
        /\ \A p \in Callers :
             (op[p] = "read" /\ pc[p] \notin {"idle", "r_lock"}
              /\ pc'[p] = "idle") =>
                (io_mutex = p /\ io_mutex' = NoOwner)
        /\ (pc[Life] = "reset_held" /\ pc'[Life] # "reset_held") =>
             (io_mutex' = NoOwner /\ pc'[Life] = "idle")]_vars

C27_Witness ==
  /\ pc[Life] = "reset_held" /\ io_mutex = Life
  /\ ret.op = "read" /\ ret.err = "ETIMEDOUT"
  /\ \E p \in Callers : pc[p] = "p_lock"

\* C28: a thread that is inside usb_rt_do_read_io (setting the flag,
\* resetting filled and copied, submitting the receive URB) or inside
\* usb_rt_draw_down owns io_mutex, so at most one thread is there.
C28_EngineUnderMutex ==
  \A q \in Procs :
    (\/ pc[q] \in {"io_flag", "io_reset", "io_submit"}
     \/ pc[q] \in {"dd_wait", "dd_killrx", "dd_killrx_wait"}
     \/ (pc[q] = "ka_wait" /\ op[q] # "disconnect"))
      => io_mutex = q

\* C29: while suspend (and no flush) is drawing down, its own steps and the
\* completions of the URBs it cancelled leave dev->interface, kref and the
\* error slot as they were, and limit_sem only grows by the slot of a
\* cancelled send; resume changes nothing, so the next read is not handed
\* an error that the suspend left behind.
C29_SuspendFrame ==
  [][(op[Life] = "suspend" /\ \A p \in Callers : op[p] # "flush") =>
       /\ (pc'[Life] # pc[Life]) =>
             UNCHANGED << interface, kref, errors, limit_sem >>
       /\ (rx_urb = "unlinked" /\ rx_urb' = "idle") =>
             UNCHANGED << interface, kref, errors, limit_sem >>
       /\ \A i \in Urbs :
            (tx[i].st = "unlinked" /\ tx'[i].st = "done") =>
               /\ UNCHANGED << interface, kref, errors >>
               /\ limit_sem' = limit_sem + 1]_vars

\* C30: a read whose usb_submit_urb fails returns -ENOMEM or -EIO with
\* ongoing_read cleared, a write whose usb_submit_urb fails returns that
\* error with its slot given back and its URB off the anchor (only URBs in
\* flight stay anchored, none is given back later), and dev->errors is not
\* changed by either.
C30_SubmitFailureDirect ==
  [][\A p \in Callers :
       /\ (pc[p] = "io_submit" /\ op[p] = "read" /\ pc'[p] = "idle") =>
             /\ ret'.err \in {"ENOMEM", "EIO"}
             /\ ~ongoing_read'
             /\ errors' = errors
       /\ (pc[p] = "w_lock" /\ pc'[p] = "idle"
           /\ ret'.err \in {"ENOMEM", "ESHUTDOWN"}) =>
             /\ errors' = errors
             /\ limit_sem' = limit_sem + 1
             /\ InFlight' = InFlight
             /\ Anchored' = InFlight]_vars

\* C31: no thread waits for io_mutex, and no writer for a slot held by such
\* a thread, while the owner of io_mutex can never release it: the owner
\* does not wait for a slot, a reader that sleeps on bulk_in_wait has a
\* receive in flight or being submitted, and a draw-down that waits for the
\* anchor to empty waits only for URBs that are in flight.
MutexWaiters == {p \in Procs : pc[p] \in {"r_lock", "w_lock", "p_lock", "dc_lock"}}

OwnerStuck ==
  /\ io_mutex # NoOwner
  /\ \/ pc[io_mutex] = "w_sem"
     \/ /\ pc[io_mutex] = "r_wait" /\ ongoing_read /\ ~RxBusy
        /\ \A q \in Procs : pc[q] \notin {"io_reset", "io_submit"}
     \/ /\ pc[io_mutex] = "ka_wait"
        /\ Anchored # {} /\ InFlight = {}

C32_SingleBufferOwned ==
  /\ [](InFlight # {} => SlotHolders = {})
  /\ [](Cardinality(SlotHolders) <= 1)
  /\ [][\A p \in Callers :
          /\ (pc[p] = "w_err" /\ pc'[p] # "w_err") => InFlight = {}
          /\ (pc[p] = "w_lock" /\ pc'[p] # "w_lock") =>
               (InFlight = {} /\ SlotHolders = {p})]_vars

C32_Witness ==
  /\ tx[1].st = "inflight" /\ limit_sem = 0
  /\ \E p \in Callers : pc[p] = "w_sem" /\ ~nb[p]
  /\ ret.op = "write" /\ ret.err = OK

\* C33: a read that finds dev->errors set returns -EPIPE or -EIO with
\* bulk_in_filled, bulk_in_copied, ongoing_read and the receive URB as they
\* were; and unread bytes (filled > copied) only ever change through a read
\* that copies them out from offset bulk_in_copied, min(available, count) of
\* them, so the next read that gets as far as the buffer returns them.
C33_ErrorKeepsData ==
  [][/\ \A p \in Callers :
          /\ (pc[p] = "r_err" /\ errors # OK /\ pc'[p] # "r_err") =>
                (pc'[p] = "r_clear" /\ UNCHANGED rxvars)
          /\ (pc[p] = "r_clear" /\ pc'[p] # "r_clear") =>
                /\ pc'[p] = "idle" /\ ret'.op = "read"
                /\ ret'.err \in {"EPIPE", "EIO"}
                /\ UNCHANGED rxvars
          /\ (pc[p] = "r_data" /\ pc'[p] # "r_data"
              /\ bulk_in_filled > bulk_in_copied) =>
                /\ pc'[p] = "r_copy"
                /\ chunk'[p] = Min(bulk_in_filled - bulk_in_copied, cnt[p])
     /\ (bulk_in_filled > bulk_in_copied
         /\ << bulk_in_filled, bulk_in_copied >>'
              # << bulk_in_filled, bulk_in_copied >>) =>
          \E p \in Callers :
            /\ pc[p] = "r_copy" /\ pc'[p] = "idle"
            /\ bulk_in_filled' = bulk_in_filled
            /\ bulk_in_copied' = bulk_in_copied + chunk[p]
            /\ ret'.err = OK => ret'.n = chunk[p]]_vars

C33_Witness ==
  /\ ret.op = "read" /\ ret.err \in {"EPIPE", "EIO"}
  /\ errors = OK
  /\ bulk_in_filled > bulk_in_copied /\ bulk_in_copied > 0
  /\ \E i \in Urbs : tx[i].st = "done"
====
